---- MODULE Spec2Model ----
(***************************************************************************)
(* Model of the zero-standing-access token broker of mcp-gatekeeper        *)
(* (src/src/mcp_gatekeeper/vault_client.py, class VaultClient, and the     *)
(* tool shims of src/src/mcp_gatekeeper/tools.py).                         *)
(*                                                                         *)
(* The broker is one asyncio object shared by concurrently running tool    *)
(* calls.  A coroutine runs without interruption between two awaited HTTP  *)
(* requests, so every action below is one such uninterrupted segment: the  *)
(* code from a call (or from the arrival of a response) up to the next     *)
(* request it sends, or up to its return.  Time is counted in ticks of     *)
(* 1/TicksPerSecond seconds; lease durations are whole seconds.            *)
(***************************************************************************)
EXTENDS Integers, Sequences, FiniteSets, TLC

\* ---------------------------------------------------------------- bounds
\* The clock stops advancing at MaxTime ticks.
MaxTime == 2
\* The backend issues at most MaxTok client tokens in one behaviour.
MaxTok == 3
\* Lease durations the backend reports: 0..MaxLease seconds.
MaxLease == 1
\* Clock resolution: ticks per second.
TicksPerSecond == 2
\* Concurrent tool calls (asyncio tasks) that share the one VaultClient.
Tasks == {1, 2}

\* ------------------------------------------------------ program constants
\* Python None (the initial value of the four credential fields).
None == -1
\* self._bootstrap_token, the token supplied at construction.
bootstrap_token == 0
\* auth.get("lease_duration", 900): the lease used when the backend reports none.
DefaultLease == 900

Leases == 0 .. MaxLease
\* What the MFA-validate response carries as lease_duration: a number or nothing.
LeaseFields == Leases \cup {None}

VARIABLES
    now,                \* datetime.now(timezone.utc), in ticks
    ro_token,           \* self.ro_token
    ro_token_expiry,    \* self.ro_token_expiry
    rw_token,           \* self.rw_token
    rw_token_expiry,    \* self.rw_token_expiry
    call,               \* per task: the tool call it is suspended in, or NoCall
    pc,                 \* per task: the request it awaits, or "idle"
    username,           \* per task: the identity of the login flow it is in
    issued,             \* how many client tokens the backend has issued so far
    rw_lease,           \* the lease_duration the credential in the RW slot was given
    step                \* what the last step did (requests sent, value returned)

vars == <<now, ro_token, ro_token_expiry, rw_token, rw_token_expiry, call, pc,
          username, issued, rw_lease, step>>

\* ------------------------------------------------------- pure helpers
\* The lease as it would be if taken for minutes: timedelta(minutes=...).
timedelta_minutes(seconds) == seconds * 60 * TicksPerSecond

\* timedelta(seconds=lease_duration) in ticks.
timedelta(seconds) == seconds * TicksPerSecond

\* int((expiry - now).total_seconds()): truncation toward zero.
remaining_seconds(expiry, n) ==
    IF expiry - n >= 0 THEN (expiry - n) \div TicksPerSecond
                       ELSE 0 - ((n - expiry) \div TicksPerSecond)

\* lease_duration = auth.get("lease_duration", 900)
lease_duration(field) == IF field = None THEN DefaultLease ELSE field

\* The validity check as it would be with > in place of >= (lines 49, 58).
has_valid_token_late(token, expiry, n) ==
    IF token = None \/ expiry = None
    THEN [valid |-> FALSE, token |-> token, expiry |-> expiry]
    ELSE IF n > expiry
         THEN [valid |-> FALSE, token |-> None, expiry |-> None]
         ELSE [valid |-> TRUE, token |-> token, expiry |-> expiry]

\* _has_valid_ro_token / _has_valid_rw_token: the answer and the slot it leaves.
has_valid_token(token, expiry, n) ==
    IF token = None \/ expiry = None
    THEN [valid |-> FALSE, token |-> token, expiry |-> expiry]
    ELSE IF n >= expiry
         THEN [valid |-> FALSE, token |-> None, expiry |-> None]
         ELSE [valid |-> TRUE, token |-> token, expiry |-> expiry]

\* The RO validity check as it would be if eviction reset the token only
\* (line 51 left out).
has_valid_ro_token_keeps_expiry ==
    LET r == has_valid_token(ro_token, ro_token_expiry, now)
    IN  [r EXCEPT !.expiry = ro_token_expiry]

has_valid_ro_token == has_valid_token(ro_token, ro_token_expiry, now)

\* The RW validity check as it would be without the expiry comparison.
has_valid_rw_token_no_expiry ==
    IF rw_token = None \/ rw_token_expiry = None
    THEN [valid |-> FALSE, token |-> rw_token, expiry |-> rw_token_expiry]
    ELSE [valid |-> TRUE, token |-> rw_token, expiry |-> rw_token_expiry]

has_valid_rw_token == has_valid_token(rw_token, rw_token_expiry, now)

\* The reported tier as it would be with the two blocks of token_status in
\* the other order (a valid RO credential overriding "rw").
status_tier_ro_last(ro, rw) == IF ro THEN "ro" ELSE IF rw THEN "rw" ELSE "no_access"

\* The tier token_status reports, lines 235-251.
status_tier(ro, rw) == IF rw THEN "rw" ELSE IF ro THEN "ro" ELSE "no_access"

\* The tier deescalate names in its message, lines 212 and 227.
message_tier(ro) == IF ro THEN "ro" ELSE "no_access"

\* ------------------------------------- the credentials of the data model
\* A credential is valid iff it is present and now < expiry.
IsValid(token, expiry, n) == token # None /\ expiry # None /\ n < expiry

RoValid == IsValid(ro_token, ro_token_expiry, now)

RwValid == IsValid(rw_token, rw_token_expiry, now)

RoSlot == <<ro_token, ro_token_expiry>>

RwSlot == <<rw_token, rw_token_expiry>>

Empty == <<None, None>>

\* ------------------------------------------------- calls and step records
\* A tool call: its name, how often it has invoked authenticate(), whether
\* the credential it checks first (RO for read_secret, list_secrets and
\* escalate, RW for write_secret and deescalate; authenticate checks none) was
\* valid immediately before the call, how many MFA-validate requests (pushes)
\* it has sent, and the token its revoke-self request carries (line 218).
Call(o, n, valid) ==
    [op |-> o, logins |-> n, valid_at_call |-> valid, pushes |-> 0,
     revoking |-> None]

NoCall == Call("none", 0, FALSE)

\* The step that led to the current state: the call it belongs to, whether it
\* is the call's first step or the arrival of a response (and which), the
\* request it sent and the token that authorizes it, the value it returned or
\* the exception it raised, and what token_status and deescalate reported.
NoStep ==
    [op |-> "none", logins |-> 0, valid_at_call |-> FALSE, pushes |-> 0,
     ev |-> "init", out |-> "none", req |-> "none", auth |-> None,
     ret |-> "none", tier |-> "none", ro_flag |-> FALSE, rw_flag |-> FALSE,
     ro_rem |-> None, rw_rem |-> None, lease |-> None,
     evict_ro |-> FALSE, evict_rw |-> FALSE]

StepOf(c, ev, out) ==
    [NoStep EXCEPT !.op = c.op, !.logins = c.logins,
                   !.valid_at_call = c.valid_at_call, !.pushes = c.pushes,
                   !.ev = ev, !.out = out]

\* A step of call c that sends request req authorized with auth.
Sends(c, ev, out, req, auth) ==
    [StepOf(c, ev, out) EXCEPT !.req = req, !.auth = auth]

\* A step of call c that returns ret (or raises it) without sending anything.
Returns(c, ev, out, ret) ==
    [StepOf(c, ev, out) EXCEPT !.ret = ret]

\* The lease on record for the RW slot once the slot holds token.
LeaseKept(token) == IF token = None THEN None ELSE rw_lease

\* A validity check found an expired credential and cleared it.
Evicts(token, r) == token # None /\ r.token = None

\* The request a call sends once it holds an RO token (lines 96, 122, 178).
NextReq(o) ==
    CASE o = "read_secret" -> "secret_get"
      [] o = "list_secrets" -> "secret_list"
      [] o = "escalate" -> "pw_rw"

\* Where the call then waits.
NextPc(o) ==
    CASE o = "read_secret" -> "get"
      [] o = "list_secrets" -> "list"
      [] o = "escalate" -> "pw"

\* The identity of the login flow it is then in.
NextUser(o) == IF o = "escalate" THEN "claude-rw" ELSE "none"

\* "claude-ro" -> "ro", "claude-rw" -> "rw"
Short(user) == IF user = "claude-ro" THEN "ro" ELSE "rw"

\* How a backend request fails: a non-success status (raise_for_status) or a
\* transport error; both are httpx.HTTPError exceptions.
Failures == {"status_error", "transport_error"}

Outcomes == {"ok", "missing", "not_found"} \cup Failures

Init ==
    /\ now = 0
    /\ ro_token = None
    /\ ro_token_expiry = None
    /\ rw_token = None
    /\ rw_token_expiry = None
    /\ call = [t \in Tasks |-> NoCall]
    /\ pc = [t \in Tasks |-> "idle"]
    /\ username = [t \in Tasks |-> "none"]
    /\ issued = 0
    /\ rw_lease = None
    /\ step = NoStep

\* A new call runs as the first task that is idle (tasks are interchangeable).
Free(t) == pc[t] = "idle" /\ \A u \in Tasks : u < t => pc[u] # "idle"

\* Task t suspends in call c at position p of the login flow of user.
Awaits(t, c, p, user) ==
    /\ call' = [call EXCEPT ![t] = c]
    /\ pc' = [pc EXCEPT ![t] = p]
    /\ username' = [username EXCEPT ![t] = user]

\* The call of task t ends: it returns or raises.
Done(t) == Awaits(t, NoCall, "idle", "none")

\* --------------------------------------------------------- tool calls
\* authenticate(), lines 135-144: the password retrieval is sent.
authenticate(t) ==
    LET c == Call("authenticate", 1, FALSE)
    IN  /\ Free(t)
        /\ Awaits(t, c, "pw", "claude-ro")
        /\ step' = Sends(c, "call", "none", "pw_ro", bootstrap_token)
        /\ UNCHANGED <<now, ro_token, ro_token_expiry, rw_token, rw_token_expiry,
                       issued, rw_lease>>

\* _ensure_ro_token as it would be without the validity check of line 84:
\* every call logs in anew.
ensure_ro_token_always_logs_in(t, o) ==
    LET r == has_valid_ro_token
        c == Call(o, 1, RoValid)
    IN  /\ Free(t)
        /\ ro_token' = r.token
        /\ ro_token_expiry' = r.expiry
        /\ Awaits(t, c, "pw", "claude-ro")
        /\ step' = [Sends(c, "call", "none", "pw_ro", bootstrap_token)
                       EXCEPT !.evict_ro = Evicts(ro_token, r)]
        /\ UNCHANGED <<now, rw_token, rw_token_expiry, issued, rw_lease>>

\* _ensure_ro_token(), lines 78-89, as the first thing of call o: with a valid
\* RO token the call sends its own request, else authenticate() is started.
ensure_ro_token(t, o) ==
    LET r == has_valid_ro_token
        c == Call(o, IF r.valid THEN 0 ELSE 1, RoValid)
    IN  /\ Free(t)
        /\ ro_token' = r.token
        /\ ro_token_expiry' = r.expiry
        /\ IF r.valid
           THEN /\ Awaits(t, c, NextPc(o), NextUser(o))
                /\ step' = Sends(c, "call", "none", NextReq(o), r.token)
           ELSE /\ Awaits(t, c, "pw", "claude-ro")
                /\ step' = [Sends(c, "call", "none", "pw_ro", bootstrap_token)
                               EXCEPT !.evict_ro = Evicts(ro_token, r)]
        /\ UNCHANGED <<now, rw_token, rw_token_expiry, issued, rw_lease>>

\* read_secret(path), lines 93-99.
read_secret(t) == ensure_ro_token(t, "read_secret")

\* list_secrets(path), lines 119-126.
list_secrets(t) == ensure_ro_token(t, "list_secrets")

\* escalate as it would be without line 176: the rw-login password retrieval
\* is sent with whatever the RO slot holds.
escalate_skips_ensure(t) ==
    LET c == Call("escalate", 0, RoValid)
    IN  /\ Free(t)
        /\ Awaits(t, c, "pw", "claude-rw")
        /\ step' = Sends(c, "call", "none", "pw_rw", ro_token)
        /\ UNCHANGED <<now, ro_token, ro_token_expiry, rw_token, rw_token_expiry,
                       issued, rw_lease>>

\* escalate(), lines 168-180.
escalate(t) == ensure_ro_token(t, "escalate")

\* write_secret as it would be if an invalid RW credential made it start the
\* RW login (auto-escalation) instead of raising.
write_secret_escalates(t) ==
    LET r == has_valid_rw_token
        c == Call("write_secret", 0, RwValid)
    IN  /\ Free(t)
        /\ rw_token' = r.token
        /\ rw_token_expiry' = r.expiry
        /\ IF r.valid
           THEN /\ Awaits(t, c, "post", "none")
                /\ step' = Sends(c, "call", "none", "secret_post", r.token)
           ELSE /\ Awaits(t, c, "pw", "claude-rw")
                /\ step' = Sends(c, "call", "none", "pw_rw", ro_token)
        /\ rw_lease' = LeaseKept(r.token)
        /\ UNCHANGED <<now, ro_token, ro_token_expiry, issued>>

\* write_secret(path, data), lines 104-115.
write_secret(t) ==
    LET r == has_valid_rw_token
        c == Call("write_secret", 0, RwValid)
    IN  /\ Free(t)
        /\ rw_token' = r.token
        /\ rw_token_expiry' = r.expiry
        /\ IF r.valid
           THEN /\ Awaits(t, c, "post", "none")
                /\ step' = Sends(c, "call", "none", "secret_post", r.token)
           ELSE /\ step' = [Returns(c, "call", "none", "PermissionError")
                               EXCEPT !.evict_rw = Evicts(rw_token, r)]
                /\ UNCHANGED <<call, pc, username>>
        /\ rw_lease' = LeaseKept(r.token)
        /\ UNCHANGED <<now, ro_token, ro_token_expiry, issued>>

\* deescalate as it would be if it tested only that an RW token is stored,
\* not that it is still valid.
deescalate_revokes_expired(t) ==
    LET ro == has_valid_ro_token
        c == Call("deescalate", 0, RwValid)
    IN  /\ Free(t)
        /\ UNCHANGED <<rw_token, rw_token_expiry, rw_lease>>
        /\ IF rw_token # None
           THEN /\ Awaits(t, [c EXCEPT !.revoking = rw_token], "revoke", "none")
                /\ step' = Sends(c, "call", "none", "revoke", rw_token)
                /\ UNCHANGED <<ro_token, ro_token_expiry>>
           ELSE /\ ro_token' = ro.token
                /\ ro_token_expiry' = ro.expiry
                /\ step' = [Returns(c, "call", "none", "noop")
                               EXCEPT !.tier = message_tier(ro.valid),
                                      !.evict_ro = Evicts(ro_token, ro)]
                /\ UNCHANGED <<call, pc, username>>
        /\ UNCHANGED <<now, issued>>

\* deescalate(), lines 204-219: the no-op return, or the revoke request.
deescalate(t) ==
    LET rw == has_valid_rw_token
        ro == has_valid_ro_token
        c == Call("deescalate", 0, RwValid)
    IN  /\ Free(t)
        /\ rw_token' = rw.token
        /\ rw_token_expiry' = rw.expiry
        /\ IF rw.valid
           THEN /\ Awaits(t, [c EXCEPT !.revoking = rw.token], "revoke", "none")
                /\ step' = Sends(c, "call", "none", "revoke", rw.token)
                /\ UNCHANGED <<ro_token, ro_token_expiry>>
           ELSE /\ ro_token' = ro.token
                /\ ro_token_expiry' = ro.expiry
                /\ step' = [Returns(c, "call", "none", "noop")
                               EXCEPT !.tier = message_tier(ro.valid),
                                      !.evict_ro = Evicts(ro_token, ro),
                                      !.evict_rw = Evicts(rw_token, rw)]
                /\ UNCHANGED <<call, pc, username>>
        /\ rw_lease' = LeaseKept(rw.token)
        /\ UNCHANGED <<now, issued>>

\* token_status as it would be if a credential with less than a whole second
\* left (int(remaining) = 0) were treated as expired and cleared.
token_status_evicts_last_second(t) ==
    LET ro0 == has_valid_ro_token
        rw0 == has_valid_rw_token
        gone == [valid |-> FALSE, token |-> None, expiry |-> None]
        ro == IF ro0.valid /\ remaining_seconds(ro0.expiry, now) = 0
              THEN gone ELSE ro0
        rw == IF rw0.valid /\ remaining_seconds(rw0.expiry, now) = 0
              THEN gone ELSE rw0
        c == Call("token_status", 0, FALSE)
    IN  /\ Free(t)
        /\ ro_token' = ro.token
        /\ ro_token_expiry' = ro.expiry
        /\ rw_token' = rw.token
        /\ rw_token_expiry' = rw.expiry
        /\ step' = [Returns(c, "call", "none", "ok")
                       EXCEPT !.tier = status_tier(ro.valid, rw.valid),
                              !.ro_flag = ro.valid,
                              !.rw_flag = rw.valid,
                              !.ro_rem = IF ro.valid
                                         THEN remaining_seconds(ro.expiry, now)
                                         ELSE None,
                              !.rw_rem = IF rw.valid
                                         THEN remaining_seconds(rw.expiry, now)
                                         ELSE None,
                              !.evict_ro = Evicts(ro_token, ro),
                              !.evict_rw = Evicts(rw_token, rw)]
        /\ rw_lease' = LeaseKept(rw.token)
        /\ UNCHANGED <<now, call, pc, username, issued>>

\* token_status(), lines 232-255.
token_status(t) ==
    LET ro == has_valid_ro_token
        rw == has_valid_rw_token
        c == Call("token_status", 0, FALSE)
    IN  /\ Free(t)
        /\ ro_token' = ro.token
        /\ ro_token_expiry' = ro.expiry
        /\ rw_token' = rw.token
        /\ rw_token_expiry' = rw.expiry
        /\ step' = [Returns(c, "call", "none", "ok")
                       EXCEPT !.tier = status_tier(ro.valid, rw.valid),
                              !.ro_flag = ro.valid,
                              !.rw_flag = rw.valid,
                              !.ro_rem = IF ro.valid
                                         THEN remaining_seconds(ro.expiry, now)
                                         ELSE None,
                              !.rw_rem = IF rw.valid
                                         THEN remaining_seconds(rw.expiry, now)
                                         ELSE None,
                              !.evict_ro = Evicts(ro_token, ro),
                              !.evict_rw = Evicts(rw_token, rw)]
        /\ rw_lease' = LeaseKept(rw.token)
        /\ UNCHANGED <<now, call, pc, username, issued>>

\* ---------------------------------------------------- backend responses
\* A failing call as it would be if an error handler reset the RO credential.
Ends_clears_ro(t, out, e) ==
    /\ Done(t)
    /\ step' = Returns(call[t], "resp", out, e)
    /\ ro_token' = IF e = "ok" THEN ro_token ELSE None
    /\ ro_token_expiry' = IF e = "ok" THEN ro_token_expiry ELSE None
    /\ UNCHANGED <<now, rw_token, rw_token_expiry, issued, rw_lease>>

\* The call of task t ends with result e (a return value or an exception)
\* when its request was answered with out; it touches no credential.
Ends(t, out, e) ==
    /\ Done(t)
    /\ step' = Returns(call[t], "resp", out, e)
    /\ UNCHANGED <<now, ro_token, ro_token_expiry, rw_token, rw_token_expiry,
                   issued, rw_lease>>

\* The call of task t goes on to its next request and touches no credential.
Proceeds(t, p, req, auth) ==
    LET c == [call[t] EXCEPT !.pushes = IF p = "mfa" THEN @ + 1 ELSE @]
    IN  /\ pc' = [pc EXCEPT ![t] = p]
        /\ call' = [call EXCEPT ![t] = c]
        /\ step' = Sends(c, "resp", "ok", req, auth)
        /\ UNCHANGED <<now, ro_token, ro_token_expiry, rw_token, rw_token_expiry,
                       username, issued, rw_lease>>

\* The login flow as it would be if the identity login of line 263 carried
\* the bootstrap token as its header.
read_with_token_resp_bootstrap_login(t, out) ==
    /\ pc[t] = "pw"
    /\ out \in {"ok", "missing"} \cup Failures
    /\ CASE out = "ok" -> Proceeds(t, "login", "login_" \o Short(username[t]),
                                   bootstrap_token)
         [] out = "missing" -> Ends(t, out, "RuntimeError")
         [] OTHER -> Ends(t, out, "HTTPError")

\* The password retrieval answers: _read_with_token, lines 303-311, then
\* lines 145-150 or 181-186, then the identity login of line 263.
read_with_token_resp(t, out) ==
    /\ pc[t] = "pw"
    /\ out \in {"ok", "missing"} \cup Failures
    /\ CASE out = "ok" -> Proceeds(t, "login", "login_" \o Short(username[t]), None)
         [] out = "missing" -> Ends(t, out, "RuntimeError")
         [] OTHER -> Ends(t, out, "HTTPError")

\* The login flow as it would be without the check of lines 275-279: the
\* MFA validation is requested although no request id came back.
userpass_login_resp_ignores_missing_id(t, out) ==
    /\ pc[t] = "login"
    /\ out \in {"ok", "missing"} \cup Failures
    /\ CASE out \in {"ok", "missing"} ->
              LET c == [call[t] EXCEPT !.pushes = @ + 1]
              IN  /\ pc' = [pc EXCEPT ![t] = "mfa"]
                  /\ call' = [call EXCEPT ![t] = c]
                  /\ step' = Sends(c, "resp", out, "mfa_" \o Short(username[t]),
                                   bootstrap_token)
                  /\ UNCHANGED <<now, ro_token, ro_token_expiry, rw_token,
                                 rw_token_expiry, username, issued, rw_lease>>
         [] OTHER -> Ends(t, out, "HTTPError")

\* The identity login answers: lines 267-288.
userpass_login_resp(t, out) ==
    /\ pc[t] = "login"
    /\ out \in {"ok", "missing"} \cup Failures
    /\ CASE out = "ok" -> Proceeds(t, "mfa", "mfa_" \o Short(username[t]),
                                   bootstrap_token)
         [] out = "missing" -> Ends(t, out, "RuntimeError")
         [] OTHER -> Ends(t, out, "HTTPError")

\* authenticate as it would be if a fresh RO login also renewed the lease of
\* a held RW credential (a rolling window).
authenticate_done_renews_rw(t, client_token, lease) ==
    /\ ro_token' = client_token
    /\ ro_token_expiry' = now + timedelta(lease)
    /\ rw_token' = rw_token
    /\ rw_token_expiry' = IF rw_token = None THEN rw_token_expiry
                                             ELSE now + timedelta(lease)
    /\ rw_lease' = rw_lease
    /\ IF call[t].op = "authenticate"
       THEN /\ Done(t)
            /\ step' = [Returns(call[t], "resp", "ok", "ok") EXCEPT !.lease = lease]
       ELSE /\ Awaits(t, call[t], NextPc(call[t].op), NextUser(call[t].op))
            /\ step' = [Sends(call[t], "resp", "ok", NextReq(call[t].op),
                              client_token)
                           EXCEPT !.lease = lease]

\* The MFA validation of the RO login granted client_token with this lease:
\* lines 156-164, then what the caller of authenticate() does next.
authenticate_done(t, client_token, lease) ==
    /\ ro_token' = client_token
    /\ ro_token_expiry' = now + timedelta(lease)
    /\ UNCHANGED <<rw_token, rw_token_expiry, rw_lease>>
    /\ IF call[t].op = "authenticate"
       THEN /\ Done(t)
            /\ step' = [Returns(call[t], "resp", "ok", "ok") EXCEPT !.lease = lease]
       ELSE /\ Awaits(t, call[t], NextPc(call[t].op), NextUser(call[t].op))
            /\ step' = [Sends(call[t], "resp", "ok", NextReq(call[t].op),
                              client_token)
                           EXCEPT !.lease = lease]

\* The MFA validation of the RW login granted client_token: lines 192-200.
escalate_done(t, client_token, lease) ==
    /\ rw_token' = client_token
    /\ rw_token_expiry' = now + timedelta(lease)
    /\ rw_lease' = lease
    /\ UNCHANGED <<ro_token, ro_token_expiry>>
    /\ Done(t)
    /\ step' = [Returns(call[t], "resp", "ok", "ok") EXCEPT !.lease = lease]

\* The RO login as it would be if its result were dropped when another flow
\* has stored a valid RO credential in the meantime (first flow wins).
mfa_validate_resp_first_wins(t, out, field) ==
    /\ pc[t] = "mfa"
    /\ out \in {"ok", "missing"} \cup Failures
    /\ CASE out = "ok" ->
              /\ issued < MaxTok
              /\ issued' = issued + 1
              /\ now' = now
              /\ IF username[t] = "claude-ro"
                 THEN IF RoValid
                      THEN authenticate_done(t, ro_token,
                               remaining_seconds(ro_token_expiry, now))
                      ELSE authenticate_done(t, issued + 1, lease_duration(field))
                 ELSE escalate_done(t, issued + 1, lease_duration(field))
         [] out = "missing" -> field = None /\ Ends(t, out, "RuntimeError")
         [] OTHER -> field = None /\ Ends(t, out, "HTTPError")

\* The MFA validation answers: lines 289-301, then the caller's assignment.
mfa_validate_resp(t, out, field) ==
    /\ pc[t] = "mfa"
    /\ out \in {"ok", "missing"} \cup Failures
    /\ CASE out = "ok" ->
              /\ issued < MaxTok
              /\ issued' = issued + 1
              /\ now' = now
              /\ IF username[t] = "claude-ro"
                 THEN authenticate_done(t, issued + 1, lease_duration(field))
                 ELSE escalate_done(t, issued + 1, lease_duration(field))
         [] out = "missing" -> field = None /\ Ends(t, out, "RuntimeError")
         [] OTHER -> field = None /\ Ends(t, out, "HTTPError")

\* The secret GET answers: lines 100-102.
read_secret_resp(t, out) ==
    /\ pc[t] = "get"
    /\ out \in {"ok"} \cup Failures
    /\ Ends(t, out, IF out = "ok" THEN "ok" ELSE "HTTPError")

\* The secret LIST answers: lines 127-131.
list_secrets_resp(t, out) ==
    /\ pc[t] = "list"
    /\ out \in {"ok", "not_found"} \cup Failures
    /\ Ends(t, out, IF out \in {"ok", "not_found"} THEN "ok" ELSE "HTTPError")

\* The secret POST answers: lines 116-117.
write_secret_resp(t, out) ==
    /\ pc[t] = "post"
    /\ out \in {"ok"} \cup Failures
    /\ Ends(t, out, IF out = "ok" THEN "ok" ELSE "HTTPError")

\* deescalate as it would be without the try/except of lines 215-222: a
\* failed revoke propagates and the RW slot is not cleared.
deescalate_resp_propagates(t, out) ==
    LET ro == has_valid_ro_token
    IN  /\ pc[t] = "revoke"
        /\ out \in {"ok"} \cup Failures
        /\ IF out = "ok"
           THEN /\ rw_token' = None
                /\ rw_token_expiry' = None
                /\ ro_token' = ro.token
                /\ ro_token_expiry' = ro.expiry
                /\ Done(t)
                /\ step' = [Returns(call[t], "resp", out, "ok")
                               EXCEPT !.tier = message_tier(ro.valid),
                                      !.evict_ro = Evicts(ro_token, ro)]
                /\ rw_lease' = None
                /\ UNCHANGED <<now, issued>>
           ELSE Ends(t, out, "HTTPError")

\* The revoke-self request answers or fails: lines 220-228.
deescalate_resp(t, out) ==
    LET ro == has_valid_ro_token
    IN  /\ pc[t] = "revoke"
        /\ out \in {"ok"} \cup Failures
        /\ rw_token' = None
        /\ rw_token_expiry' = None
        /\ ro_token' = ro.token
        /\ ro_token_expiry' = ro.expiry
        /\ Done(t)
        /\ step' = [Returns(call[t], "resp", out, "ok")
                       EXCEPT !.tier = message_tier(ro.valid),
                              !.evict_ro = Evicts(ro_token, ro)]
        /\ rw_lease' = None
        /\ UNCHANGED <<now, issued>>

\* The clock advances by one tick.
Tick ==
    /\ now < MaxTime
    /\ now' = now + 1
    /\ step' = [NoStep EXCEPT !.ev = "tick"]
    /\ UNCHANGED <<ro_token, ro_token_expiry, rw_token, rw_token_expiry, call, pc,
                   username, issued, rw_lease>>

Next ==
    \/ \E t \in Tasks : authenticate(t)
    \/ \E t \in Tasks : read_secret(t)
    \/ \E t \in Tasks : list_secrets(t)
    \/ \E t \in Tasks : write_secret(t)
    \/ \E t \in Tasks : escalate(t)
    \/ \E t \in Tasks : deescalate(t)
    \/ \E t \in Tasks : token_status(t)
    \/ \E t \in Tasks, out \in Outcomes : read_with_token_resp(t, out)
    \/ \E t \in Tasks, out \in Outcomes : userpass_login_resp(t, out)
    \/ \E t \in Tasks, out \in Outcomes, field \in LeaseFields :
          mfa_validate_resp(t, out, field)
    \/ \E t \in Tasks, out \in Outcomes : read_secret_resp(t, out)
    \/ \E t \in Tasks, out \in Outcomes : list_secrets_resp(t, out)
    \/ \E t \in Tasks, out \in Outcomes : write_secret_resp(t, out)
    \/ \E t \in Tasks, out \in Outcomes : deescalate_resp(t, out)
    \/ Tick

Spec == Init /\ [][Next]_vars

\* ------------------------------------------------------------ properties
\* The requests of a login flow: password retrieval, identity login, MFA.
LoginRequests == {"pw_ro", "pw_rw", "login_ro", "login_rw", "mfa_ro", "mfa_rw"}

\* A slot after a step that may only have lazily cleared it: it is as it was,
\* or it held an expired credential and is now empty.
OnlyEvicted(before, after, valid) ==
    \/ after = before
    \/ ~valid /\ before[1] # None /\ before[2] # None /\ after = Empty

\* C1: write_secret never triggers a login.  No step of a write_secret call
\* sends a password-retrieval, identity-login or MFA-validate request or counts
\* a login-flow invocation, and no client token is issued by it; called with
\* the RW credential not valid it raises PermissionError at once, sends
\* nothing, leaves the RO slot as it is and the RW slot as it is apart from
\* clearing an expired credential.
C1_WriteNeverLogsIn ==
    [][step'.op = "write_secret" =>
          /\ step'.req \notin LoginRequests
          /\ step'.logins = 0
          /\ issued' = issued
          /\ (step'.ev = "call" /\ ~RwValid =>
                 /\ step'.ret = "PermissionError"
                 /\ step'.req = "none"
                 /\ pc' = pc
                 /\ RoSlot' = RoSlot
                 /\ OnlyEvicted(RwSlot, RwSlot', RwValid)
                 /\ RwSlot' = IF rw_token # None /\ rw_token_expiry # None
                              THEN Empty ELSE RwSlot)]_vars

\* C1 witness: a write_secret call found an expired RW credential while the
\* RO credential was valid, cleared it and raised PermissionError.
C1_Witness ==
    /\ step.op = "write_secret"
    /\ step.ret = "PermissionError"
    /\ step.evict_rw
    /\ RoValid

\* C2 as stated: a write_secret call succeeds if and only if the RW credential
\* was valid immediately before the call.
C2_WriteSucceedsIffRwValid ==
    step.op = "write_secret" /\ step.ret # "none" =>
        (step.ret = "ok" <=> step.valid_at_call)

\* C2 amended: a write_secret call sends its POST, authorized with the RW
\* credential, if and only if the RW credential was valid immediately before
\* the call (else it raises PermissionError), and it succeeds if and only if
\* the credential was valid and the backend answers the POST with success.
C2_WriteSucceedsIffRwValidAndBackendOk ==
    step.op = "write_secret" =>
        /\ step.ev = "call" =>
              /\ step.req = "secret_post" <=> step.valid_at_call
              /\ step.ret = "PermissionError" <=> ~step.valid_at_call
              /\ step.ret = "none" <=> step.valid_at_call
              /\ step.valid_at_call => step.auth = rw_token /\ RwValid
        /\ step.ev = "resp" => step.valid_at_call
        /\ step.ret = "ok" <=> (step.valid_at_call /\ step.out = "ok")
        /\ step.ret = "HTTPError" <=> (step.valid_at_call /\ step.out \in Failures)

\* C2 witness: a write_secret call made with a valid RW credential failed
\* because the backend did not answer the POST with success.
C2_Witness ==
    /\ step.op = "write_secret"
    /\ step.valid_at_call
    /\ step.out = "status_error"
    /\ step.ret = "HTTPError"

\* C3: the RW slot is written only by the last step of a successful escalate,
\* which stores a fresh token with expiry now + lease; every other change of
\* the RW slot empties it, and that only in deescalate or when the credential
\* is no longer valid.  In particular no step moves the expiry of a held RW
\* credential.
C3_RwOnlyByEscalate ==
    [][RwSlot' # RwSlot =>
          \/ /\ step'.op = "escalate"
             /\ step'.ev = "resp"
             /\ step'.ret = "ok"
             /\ rw_token' = issued'
             /\ issued' = issued + 1
             /\ rw_token_expiry' = now + timedelta(step'.lease)
          \/ /\ RwSlot' = Empty
             /\ \/ step'.op = "deescalate" /\ step'.ev = "resp"
                \/ ~RwValid /\ step'.op \in {"write_secret", "deescalate",
                                             "token_status"}]_vars

\* C3 witness: an authenticate call completed (a new RO credential) while a
\* valid RW credential obtained by an earlier escalate was held.
C3_Witness ==
    /\ step.op = "authenticate"
    /\ step.ret = "ok"
    /\ RwValid
    /\ rw_token < ro_token

\* The tier of the data model: ReadWrite valid => ReadWrite, else ReadOnly
\* valid => ReadOnly, else NoAccess.
AccessTier == IF RwValid THEN "rw" ELSE IF RoValid THEN "ro" ELSE "no_access"

ReadOps == {"read_secret", "list_secrets"}

\* What C4 says of the steps of a read_secret or list_secrets call, but for
\* the validity of the renewed credential: called with a valid RO credential
\* it invokes no login flow and sends its own request; called without one it
\* invokes exactly one, which it never repeats; when that flow succeeds the RO
\* slot holds the fresh token with expiry now + lease.
ReadLogsInOnce ==
    step'.op \in ReadOps =>
        /\ step'.ev = "call" =>
              /\ step'.valid_at_call <=> RoValid
              /\ IF RoValid
                 THEN step'.logins = 0 /\ step'.req = NextReq(step'.op)
                 ELSE step'.logins = 1 /\ step'.req = "pw_ro"
        /\ step'.ev = "resp" =>
              /\ step'.req # "pw_ro"
              /\ step'.logins = IF step'.valid_at_call THEN 0 ELSE 1
        /\ step'.lease # None =>
              /\ step'.logins = 1
              /\ ro_token' = issued'
              /\ issued' = issued + 1
              /\ ro_token_expiry' = now + timedelta(step'.lease)
              /\ step'.req = NextReq(step'.op)
              /\ step'.auth = ro_token'

\* C4 as stated: a read_secret or list_secrets call made while the RO
\* credential is expired or absent triggers exactly one login flow and, when
\* the flow succeeds, leaves a valid RO credential whose expiry is the
\* completion instant plus the reported lease; made while the RO credential
\* is valid it triggers none.
C4_ReadRenewsValidRo ==
    [][/\ ReadLogsInOnce
       /\ step'.op \in ReadOps /\ step'.lease # None => RoValid']_vars

\* What the code does guarantee where C4 fails: the RO credential the
\* successful flow leaves is valid if and only if the reported lease duration
\* is positive (with a lease of 0 its expiry is the completion instant itself).
ReadRenewsRoWithLease ==
    [][/\ ReadLogsInOnce
       /\ step'.op \in ReadOps /\ step'.lease # None =>
              (RoValid' <=> step'.lease > 0)]_vars

\* A read_secret call made without a valid RO credential has logged in once,
\* holds a valid RO credential of lease 1 and sends its GET.
ReadRenewedRo ==
    /\ step.op = "read_secret"
    /\ ~step.valid_at_call
    /\ step.logins = 1
    /\ step.lease = 1
    /\ step.req = "secret_get"
    /\ RoValid

\* C5: no step of an authenticate call other than its successful last one
\* changes a credential slot, and no step of an escalate call other than its
\* successful last one changes the RW slot, or changes the RO slot when the
\* RO credential was valid immediately before the call.
C5_FailureKeepsValidCredentials ==
    [][step'.op \in {"authenticate", "escalate"} /\ step'.ret # "ok" =>
          /\ RwSlot' = RwSlot
          /\ step'.op = "authenticate" => RoSlot' = RoSlot
          /\ step'.op = "escalate" /\ step'.ev = "call" =>
                 (step'.valid_at_call <=> RoValid)
          /\ step'.op = "escalate" /\ step'.valid_at_call => RoSlot' = RoSlot]_vars

\* C5 witness: an escalate call made with a valid RO credential failed (no
\* client token came back) while a valid RW credential was held, and both
\* credentials are still valid.
C5_Witness ==
    /\ step.op = "escalate"
    /\ step.valid_at_call
    /\ step.out = "missing"
    /\ step.ret = "RuntimeError"
    /\ RoValid
    /\ RwValid

\* C6: what token_status reports is a function of the two credentials'
\* validity: tier by RW > RO > NoAccess, and each flag the validity of its
\* credential.
C6_TierFromValidity ==
    step.op = "token_status" =>
        /\ step.ret = "ok"
        /\ step.tier = AccessTier
        /\ step.ro_flag = RoValid
        /\ step.rw_flag = RwValid

\* C6 witness: token_status found a valid RW credential and an expired RO
\* credential, which it cleared, and reported "rw".
C6_Witness ==
    /\ step.op = "token_status"
    /\ step.tier = "rw"
    /\ step.evict_ro
    /\ ~step.ro_flag

\* C7: while the RW credential is not valid (its expiry reached, whether or
\* not any call was made since), token_status reports "ro" if the RO credential
\* is valid and never "rw", write_secret raises PermissionError without sending
\* anything, and only a successful escalate makes the RW credential valid again.
C7_PassiveDecay ==
    [][~RwValid =>
          /\ step'.op = "token_status" =>
                 /\ ~step'.rw_flag
                 /\ step'.tier = IF RoValid THEN "ro" ELSE "no_access"
          /\ step'.op = "write_secret" /\ step'.ev = "call" =>
                 step'.ret = "PermissionError" /\ step'.req = "none"
          /\ RwValid' => step'.op = "escalate" /\ step'.ret = "ok"]_vars

\* C7 witness: token_status found the RW credential expired and still in its
\* slot (nothing had looked at it since), and reported "ro".
C7_Witness ==
    /\ step.op = "token_status"
    /\ step.evict_rw
    /\ step.tier = "ro"

\* C8: deescalate returns normally whatever the revoke request's outcome, and
\* when it returns the RW slot is empty; no step of it changes the RO slot
\* other than by clearing an expired credential.
C8_DeescalateNeverFails ==
    [][step'.op = "deescalate" =>
          /\ OnlyEvicted(RoSlot, RoSlot', RoValid)
          /\ step'.ret \in {"none", "ok", "noop"}
          /\ step'.ret # "none" => RwSlot' = Empty
          /\ step'.ev = "resp" => step'.ret = "ok"]_vars

\* C8 witness: the revoke request failed with a transport error; deescalate
\* has returned normally, the RW slot is empty and the RO credential valid.
C8_Witness ==
    /\ step.op = "deescalate"
    /\ step.out = "transport_error"
    /\ step.ret = "ok"
    /\ RwSlot = Empty
    /\ RoValid

\* C9: deescalate called while no valid RW credential is held returns the
\* no-op message naming the current tier, sends no request, and changes no
\* slot other than by clearing an expired credential.
C9_DeescalateNoop ==
    [][step'.op = "deescalate" /\ step'.ev = "call" /\ ~RwValid =>
          /\ step'.ret = "noop"
          /\ step'.req = "none"
          /\ step'.tier = IF RoValid THEN "ro" ELSE "no_access"
          /\ OnlyEvicted(RoSlot, RoSlot', RoValid)
          /\ OnlyEvicted(RwSlot, RwSlot', RwValid)
          /\ pc' = pc
          /\ issued' = issued]_vars

\* C9 witness: deescalate found an RW credential that had expired but was
\* still in its slot; it cleared it and returned the no-op naming "ro".
C9_Witness ==
    /\ step.op = "deescalate"
    /\ step.ret = "noop"
    /\ step.evict_rw
    /\ step.tier = "ro"

\* A token_status result that reports the RW credential reports the whole
\* seconds left of the credential in the RW slot, at most its lease.
RwRemainingWithinLease ==
    step.op = "token_status" =>
        IF step.rw_flag
        THEN /\ step.rw_rem <= rw_lease
             /\ step.rw_rem * TicksPerSecond <= rw_token_expiry - now
             /\ rw_token_expiry - now < (step.rw_rem + 1) * TicksPerSecond
             /\ rw_token_expiry - now > 0
        ELSE step.rw_rem = None

\* C10 as stated: token_status called right after an escalate that succeeded
\* with lease L reports the RW credential with remaining seconds r, 0 < r <= L,
\* and whenever it reports it later, r <= L.
C10_RemainingPositive ==
    /\ [][step.op = "escalate" /\ step.ret = "ok" /\ step'.op = "token_status" =>
             /\ step'.rw_flag
             /\ 0 < step'.rw_rem
             /\ step'.rw_rem <= step.lease]_vars
    /\ [](step.op = "token_status" /\ step.rw_flag => step.rw_rem <= rw_lease)

\* What the code does guarantee where C10 fails: token_status called right
\* after an escalate that succeeded with lease L reports the RW credential if
\* and only if L > 0, and whenever token_status reports the RW credential, the
\* remaining seconds r are the whole seconds left, 0 <= r <= L (0 in the
\* credential's last second).
RemainingWithinLease ==
    /\ [][step.op = "escalate" /\ step.ret = "ok" /\ step'.op = "token_status" =>
             /\ step'.rw_flag <=> step.lease > 0
             /\ step'.rw_flag =>
                    0 <= step'.rw_rem /\ step'.rw_rem <= step.lease]_vars
    /\ []RwRemainingWithinLease
    /\ [](step.op = "token_status" /\ step.rw_flag => 0 <= step.rw_rem)

\* token_status reports a valid RW credential of lease 1 with 0 remaining
\* seconds (less than a whole second is left).
RemainingZeroWhileValid ==
    /\ step.op = "token_status"
    /\ step.rw_flag
    /\ step.rw_rem = 0
    /\ rw_lease = 1

\* The secret requests of read_secret and list_secrets.
ReadRequests == {"secret_get", "secret_list"}

\* C11 as stated: whenever read_secret or list_secrets sends its secret GET
\* or LIST request, the request is authorized with the RW credential if a
\* valid RW credential is held, and with the RO credential only if none is.
C11_ReadPrefersRw ==
    step.op \in ReadOps /\ step.req \in ReadRequests =>
        step.auth = IF RwValid THEN rw_token ELSE ro_token

\* What the code does where C11 fails: the GET or LIST request always carries
\* the token held in the RO slot, whether or not an RW credential is valid.
ReadAuthorizedWithRo ==
    step.op \in ReadOps /\ step.req \in ReadRequests =>
        step.auth = ro_token /\ step.auth # None

\* A read_secret call sends its GET with the RO token while a valid RW
\* credential is held.
ReadWithRoWhileRwValid ==
    /\ step.op = "read_secret"
    /\ step.req = "secret_get"
    /\ RwValid
    /\ step.auth = ro_token
    /\ step.auth # rw_token

\* The task whose step this is: its position changed.
Acted(t) == pc'[t] # pc[t]

\* C12 as stated: the rw-login password retrieval is sent only by escalate,
\* authorized with the credential held in the RO slot, and that credential is
\* valid (now < expiry) when the request is issued; the RW slot is written
\* only when the MFA validation of the RW login of an escalate call succeeds,
\* never by a step that ends an escalate call with a failure.
C12_EscalateNeedsValidRo ==
    /\ [](step.req = "pw_rw" =>
             /\ step.op = "escalate"
             /\ step.auth = ro_token
             /\ RoValid)
    /\ [][/\ step'.op = "escalate" /\ step'.ret \notin {"none", "ok"} =>
               RwSlot' = RwSlot
          /\ rw_token' # rw_token /\ rw_token' # None =>
               /\ step'.op = "escalate"
               /\ step'.out = "ok"
               /\ \E t \in Tasks : /\ Acted(t)
                                   /\ pc[t] = "mfa"
                                   /\ username[t] = "claude-rw"]_vars

\* What the code does guarantee where C12 fails: the rw-login password
\* retrieval carries the token in the RO slot, which is valid if and only if
\* it was valid at the call or was renewed with a positive lease.
EscalateWithRoOfLease ==
    /\ [](step.req = "pw_rw" =>
             /\ step.op = "escalate"
             /\ step.auth = ro_token
             /\ step.auth # None
             /\ RoValid <=> (step.valid_at_call \/ step.lease > 0))
    /\ [][/\ step'.op = "escalate" /\ step'.ret \notin {"none", "ok"} =>
               RwSlot' = RwSlot
          /\ rw_token' # rw_token /\ rw_token' # None =>
               /\ step'.op = "escalate"
               /\ step'.out = "ok"
               /\ \E t \in Tasks : /\ Acted(t)
                                   /\ pc[t] = "mfa"
                                   /\ username[t] = "claude-rw"]_vars

\* An escalate call that renewed the RO credential with lease 0 sends the
\* rw-login password retrieval with a credential that is not valid.
EscalateWithExpiredRo ==
    /\ step.op = "escalate"
    /\ step.req = "pw_rw"
    /\ step.lease = 0
    /\ ~RoValid

\* The requests that carry the bootstrap token.
BootstrapRequests == {"pw_ro", "mfa_ro", "mfa_rw"}

EnsureOps == {"read_secret", "list_secrets", "escalate"}

\* The positions of a login flow.
FlowPcs == {"pw", "login", "mfa"}

\* C14: the check-then-renew of the RO credential is not serialized.  Every
\* read_secret, list_secrets or escalate call that finds the RO credential
\* not valid starts its own login flow, whatever flows are in flight; and
\* every RO login flow that completes stores its fresh token with expiry
\* now + lease in the RO slot, whatever the slot holds, so that the slot
\* finally holds the credential of the flow that completed last.
C14_ConcurrentRoLogins ==
    [][/\ step'.ev = "call" /\ step'.op \in EnsureOps /\ ~RoValid =>
            /\ step'.req = "pw_ro"
            /\ step'.auth = bootstrap_token
            /\ step'.logins = 1
            /\ \E t \in Tasks : Acted(t) /\ pc'[t] = "pw"
                                         /\ username'[t] = "claude-ro"
       /\ \A t \in Tasks :
            Acted(t) /\ pc[t] = "mfa" /\ username[t] = "claude-ro"
                     /\ step'.out = "ok" =>
                /\ issued' = issued + 1
                /\ ro_token' = issued'
                /\ step'.lease # None
                /\ ro_token_expiry' = now + timedelta(step'.lease)]_vars

\* C14 witness: two calls that each found no valid RO credential are both
\* waiting for the MFA validation of their own RO login (two pushes in
\* flight), and the RO slot is still empty.
C14_Witness ==
    /\ RoSlot = Empty
    /\ \A t \in Tasks :
          /\ pc[t] = "mfa"
          /\ username[t] = "claude-ro"
          /\ call[t].op \in EnsureOps
          /\ call[t].logins = 1
          /\ ~call[t].valid_at_call
          /\ call[t].pushes = 1

\* The position of a call in the sequence of the six login requests of an
\* escalate: ro password, ro login, ro MFA, rw password, rw login, rw MFA.
Stage(p, user) ==
    IF p \notin FlowPcs THEN 0
    ELSE (IF user = "claude-ro" THEN 0 ELSE 3)
         + (CASE p = "pw" -> 1 [] p = "login" -> 2 [] p = "mfa" -> 3)

MfaRequests == {"mfa_ro", "mfa_rw"}

\* C15: within one escalate call the two login flows are strictly sequential.
\* Called with a valid RO credential it starts with the rw-login password
\* retrieval and sends exactly one MFA-validate request; called without one
\* it starts the RO login, sends the rw-login password retrieval only in the
\* step in which the RO login completes and sets the RO slot, and has sent
\* exactly two MFA-validate requests when it succeeds.  Each step takes the
\* call one request further in the sequence or ends it, and a failure in the
\* RO flow ends the call with no request of the RW flow sent.
C15_EscalateFlowsSequential ==
    [][step'.op = "escalate" =>
          /\ step'.ev = "call" =>
                /\ step'.valid_at_call <=> RoValid
                /\ step'.pushes = 0
                /\ IF RoValid
                   THEN step'.req = "pw_rw" /\ step'.logins = 0
                   ELSE step'.req = "pw_ro" /\ step'.logins = 1
          /\ \A t \in Tasks :
                Acted(t) =>
                   /\ pc'[t] # "idle" =>
                         Stage(pc'[t], username'[t]) =
                            IF pc[t] = "idle"
                            THEN (IF RoValid THEN 4 ELSE 1)
                            ELSE Stage(pc[t], username[t]) + 1
                   /\ pc[t] # "idle" =>
                         step'.pushes = call[t].pushes
                            + (IF step'.req \in MfaRequests THEN 1 ELSE 0)
                   /\ username[t] = "claude-ro" /\ step'.out # "ok" =>
                         /\ pc'[t] = "idle"
                         /\ step'.req = "none"
                         /\ step'.ret \in {"RuntimeError", "HTTPError"}
                         /\ RwSlot' = RwSlot
          /\ step'.req = "mfa_ro" => ~step'.valid_at_call /\ step'.pushes = 1
          /\ step'.req = "mfa_rw" =>
                step'.pushes = IF step'.valid_at_call THEN 1 ELSE 2
          /\ step'.req = "pw_rw" /\ step'.ev = "resp" =>
                /\ ~step'.valid_at_call
                /\ step'.pushes = 1
                /\ step'.lease # None
                /\ issued' = issued + 1
                /\ ro_token' = issued'
                /\ ro_token_expiry' # None
                /\ step'.auth = ro_token'
          /\ step'.ret = "ok" =>
                /\ step'.pushes = IF step'.valid_at_call THEN 1 ELSE 2
                /\ rw_token' = issued']_vars

\* C15 witness: an escalate call made without a valid RO credential has
\* succeeded after two MFA-validate requests; both slots hold a credential.
C15_Witness ==
    /\ step.op = "escalate"
    /\ step.ret = "ok"
    /\ ~step.valid_at_call
    /\ step.pushes = 2
    /\ ro_token # None
    /\ rw_token # None
    /\ ro_token < rw_token

\* C16: the login flow is a three-step protocol.  The identity login is sent
\* only in the step in which the password retrieval answered with a password,
\* the MFA validation only in the step in which the identity login answered
\* with a request id, and a slot is written only in the step in which the MFA
\* validation of its tier's login answered with a client token, value and
\* expiry together.  A missing password, request id or client token ends the
\* call with RuntimeError, a failed request with HTTPError; such a step sends
\* nothing and changes no slot.
C16_LoginFlowAbortsOnFailure ==
    [][/\ step'.req \in {"login_ro", "login_rw"} =>
            /\ step'.out = "ok"
            /\ \E t \in Tasks : Acted(t) /\ pc[t] = "pw" /\ pc'[t] = "login"
       /\ step'.req \in MfaRequests =>
            /\ step'.out = "ok"
            /\ \E t \in Tasks : Acted(t) /\ pc[t] = "login" /\ pc'[t] = "mfa"
       /\ RoSlot' # RoSlot /\ RoSlot' # Empty =>
            /\ step'.out = "ok"
            /\ step'.lease # None
            /\ \E t \in Tasks : Acted(t) /\ pc[t] = "mfa"
                                         /\ username[t] = "claude-ro"
            /\ issued' = issued + 1
            /\ ro_token' = issued'
            /\ ro_token_expiry' = now + timedelta(step'.lease)
       /\ RwSlot' # RwSlot /\ RwSlot' # Empty =>
            /\ step'.out = "ok"
            /\ step'.lease # None
            /\ \E t \in Tasks : Acted(t) /\ pc[t] = "mfa"
                                         /\ username[t] = "claude-rw"
            /\ issued' = issued + 1
            /\ rw_token' = issued'
            /\ rw_token_expiry' = now + timedelta(step'.lease)
       /\ \A t \in Tasks :
            Acted(t) /\ pc[t] \in FlowPcs /\ step'.out # "ok" =>
                /\ pc'[t] = "idle"
                /\ step'.req = "none"
                /\ step'.ret = IF step'.out = "missing" THEN "RuntimeError"
                                                        ELSE "HTTPError"
                /\ RoSlot' = RoSlot
                /\ RwSlot' = RwSlot
                /\ issued' = issued]_vars

\* C16 witness: the MFA validation of an authenticate call came back without
\* a client token; the call raised RuntimeError and the valid RO credential
\* held before is still in its slot.
C16_Witness ==
    /\ step.op = "authenticate"
    /\ step.pushes = 1
    /\ step.out = "missing"
    /\ step.ret = "RuntimeError"
    /\ RoValid

\* What token_status returns.
StatusResult(s) == <<s.ret, s.tier, s.ro_flag, s.rw_flag, s.ro_rem, s.rw_rem>>

\* C17: token_status sends no request and starts no login flow, suspends
\* nowhere, and changes a slot only by clearing a credential whose expiry has
\* been reached; called again at the same instant it returns the same result
\* and changes nothing.
C17_TokenStatusPureRead ==
    [][step'.op = "token_status" =>
          /\ step'.req = "none"
          /\ step'.auth = None
          /\ step'.logins = 0
          /\ step'.pushes = 0
          /\ step'.ret = "ok"
          /\ pc' = pc /\ call' = call /\ username' = username
          /\ issued' = issued
          /\ now' = now
          /\ OnlyEvicted(RoSlot, RoSlot', RoValid)
          /\ OnlyEvicted(RwSlot, RwSlot', RwValid)
          /\ step.op = "token_status" =>
                /\ StatusResult(step') = StatusResult(step)
                /\ RoSlot' = RoSlot
                /\ RwSlot' = RwSlot
                /\ rw_lease' = rw_lease]_vars

\* C17 witness: token_status cleared an expired RO credential and left the
\* RW credential, valid in its last second, as it was.
C17_Witness ==
    /\ step.op = "token_status"
    /\ step.evict_ro
    /\ RoSlot = Empty
    /\ step.rw_flag
    /\ step.rw_rem = 0
    /\ RwValid

\* C18 as stated: in every reachable state in which the RW credential is
\* valid, the RO credential is valid too.
C18_RwValidImpliesRoValid == RwValid => RoValid

\* What the code does where C18 fails: the two expiries are independent, and
\* a tick that ends the validity of the RW credential leaves the tier at
\* ReadOnly if the RO credential is still valid and at NoAccess if not.
RwExpiryDropsToRoOrNoAccess ==
    [][step'.ev = "tick" /\ RwValid /\ ~RwValid' =>
          /\ RoSlot' = RoSlot
          /\ RwSlot' = RwSlot
          /\ AccessTier = "rw"
          /\ AccessTier' = IF IsValid(ro_token, ro_token_expiry, now')
                           THEN "ro" ELSE "no_access"]_vars

\* A tick has ended the validity of the RO credential under which the RW
\* credential was obtained, and the RW credential is still valid.
RwOutlivesRo ==
    /\ step.ev = "tick"
    /\ RwValid
    /\ ro_token < rw_token
    /\ IsValid(ro_token, ro_token_expiry, now - 1)
    /\ ~RoValid

\* C19 as stated, for the credential in the RW slot: whenever a deescalate
\* call that sent its revoke request returns, the credential it removes from
\* the RW slot (if any is left there) is past its expiry or is one for which
\* a revoke request has been sent, by this call or by another deescalate call
\* still in flight.
C19_DeescalateRevokesWhatItRemoves ==
    [][step'.op = "deescalate" /\ step'.ev = "resp" =>
          \/ rw_token = None
          \/ ~RwValid
          \/ \E t \in Tasks : /\ call[t].op = "deescalate"
                              /\ call[t].revoking = rw_token]_vars

\* What the code does guarantee where C19 fails: a returning deescalate call
\* had sent its revoke request for the credential that was then valid in the
\* RW slot, and leaves the RW slot empty, whatever the slot holds by then.
DeescalateClearsWhateverIsHeld ==
    [][/\ step'.op = "deescalate" /\ step'.ev = "call" /\ step'.req = "revoke" =>
            /\ step'.auth = rw_token
            /\ RwValid
            /\ \E t \in Tasks : Acted(t) /\ call'[t].revoking = rw_token
       /\ step'.op = "deescalate" /\ step'.ev = "resp" => RwSlot' = Empty]_vars

\* C20: in every reachable state each slot is well formed: token and expiry
\* are both present or both absent, in the RO slot and in the RW slot.
C20_SlotsWellFormed ==
    /\ ro_token = None <=> ro_token_expiry = None
    /\ rw_token = None <=> rw_token_expiry = None

\* C20 witness: between the steps of a login flow that is waiting for its
\* MFA validation, another call has lazily cleared the expired RO credential
\* while the RW slot holds a credential.
C20_Witness ==
    /\ step.evict_ro
    /\ RoSlot = Empty
    /\ rw_token # None
    /\ rw_token_expiry # None
    /\ \E t \in Tasks : pc[t] = "mfa"

====
